---- MODULE Spec2Model ----
(***************************************************************************)
(* Model of the request gateway of arcgis-location-services-mcp            *)
(* (src/main.py): make_arcgis_request and log_http_request.                *)
(*                                                                         *)
(* Text is a sequence of string fragments, so that concatenation is \o and *)
(* Python's substring test is a contiguous-subsequence test.  Python/JSON  *)
(* values are records tagged by "kind"; a dict is a function from keys to  *)
(* values.  One caller owns one Call Descriptor and submits it up to       *)
(* MaxCalls times; the dict it passes is the very object the callee        *)
(* mutates.                                                                *)
(***************************************************************************)
EXTENDS Integers, Sequences, FiniteSets, TLC

\* ------------------------------------------------------------------ bounds
\* how many times the caller submits the same Call Descriptor
MaxCalls == 2

\* how many places the near-point search returns at most
MaxPlaces == 3

\* the largest detailsLimit an invocation of find_nearby_places is given
MaxLimit == 2

\* ------------------------------------------------------- Python/JSON values
None == [kind |-> "null"]
Num(n) == [kind |-> "number", n |-> n]
Str(t) == [kind |-> "string", s |-> t]
List(xs) == [kind |-> "list", items |-> xs]
Dict(m) == [kind |-> "dict", members |-> m]
\* a response body that json() cannot decode
NotJson == [kind |-> "notjson"]

\* a response body that is not UTF-8 text (an image, say): json() fails while
\* decoding the bytes, with UnicodeDecodeError instead of JSONDecodeError
BadBytes == [kind |-> "badbytes"]

\* {} : the dict with no keys
EmptyMap == [k \in {} |-> None]

\* d[k] = v
SetItem(d, k, v) == [x \in (DOMAIN d) \cup {k} |-> IF x = k THEN v ELSE d[x]]

\* the dict left by d.pop(k)
DelItem(d, k) == [x \in (DOMAIN d) \ {k} |-> d[x]]

\* d.get(k, default) and the value of d.pop(k, default)
GetItem(d, k, default) == IF k \in DOMAIN d THEN d[k] ELSE default

\* Python truthiness of a value
Truthy(v) ==
    CASE v.kind = "null" -> FALSE
      [] v.kind = "string" -> v.s # <<>>
      [] v.kind = "number" -> v.n # 0
      [] v.kind = "list" -> v.items # <<>>
      [] v.kind = "dict" -> DOMAIN v.members # {}
      [] OTHER -> TRUE

\* sub in text, for two str operands
Contains(sub, text) ==
    \E i \in 0..(Len(text) - Len(sub)) : SubSeq(text, i + 1, i + Len(sub)) = sub

\* str(v) as an f-string renders it
PyStr(v) ==
    CASE v.kind = "string" -> v.s
      [] v.kind = "null" -> <<"None">>
      [] v.kind = "number" -> <<ToString(v.n)>>
      [] OTHER -> <<"<", v.kind, ">">>

\* ----------------------------------------------------------- str.upper()
Lowers == <<"a","b","c","d","e","f","g","h","i","j","k","l","m",
            "n","o","p","q","r","s","t","u","v","w","x","y","z">>
Uppers == <<"A","B","C","D","E","F","G","H","I","J","K","L","M",
            "N","O","P","Q","R","S","T","U","V","W","X","Y","Z">>

UpperChar(c) ==
    IF \E i \in 1..26 : Lowers[i] = c
    THEN Uppers[CHOOSE i \in 1..26 : Lowers[i] = c]
    ELSE c

Upper(t) == [i \in 1..Len(t) |-> UpperChar(t[i])]

GET == <<"G","E","T">>
POST == <<"P","O","S","T">>

\* ------------------------------------------------------- program constants
USER_AGENT == Str(<<"arcgis-location-services-mcp/1.0">>)
REDACTED == Str(<<"......">>)

\* ------------------------------------------------------------- exceptions
Return(v) == [kind |-> "return", exc |-> "none", value |-> v,
              message |-> <<>>, status_code |-> None]

\* ArcGISError(message, status_code)
ArcGISError(msg, code) == [kind |-> "raise", exc |-> "ArcGISError", value |-> None,
                           message |-> msg, status_code |-> code]

\* any other exception class leaving the function
Raise(cls, msg) == [kind |-> "raise", exc |-> cls, value |-> None,
                    message |-> msg, status_code |-> None]

NoOutcome == [kind |-> "running", exc |-> "none", value |-> None,
              message |-> <<>>, status_code |-> None]

\* ------------------------------------------------ parameter completion
\* variant: the default key also replaces a token the caller supplied
ResolveCredentialKeyFirst(p, token, apiKey) ==
    IF Truthy(token) THEN SetItem(p, "token", token)
    ELSE IF Truthy(apiKey) THEN SetItem(p, "token", apiKey)
    ELSE p

\* lines 162-167: the token the request will carry
ResolveCredential(p, token, apiKey) ==
    IF Truthy(token) THEN SetItem(p, "token", token)
    ELSE IF Truthy(apiKey) /\ "token" \notin DOMAIN p THEN SetItem(p, "token", apiKey)
    ELSE p

\* variant: f is set to json whatever the caller chose
EnsureFormatAlways(p) == SetItem(p, "f", Str(<<"json">>))

\* lines 170-171: f=json unless the caller chose a format
EnsureFormat(p) ==
    IF "f" \notin DOMAIN p THEN SetItem(p, "f", Str(<<"json">>)) ELSE p

\* lines 173-176
BaseHeaders == ("User-Agent" :> USER_AGENT) @@ ("Accept" :> Str(<<"application/json">>))

\* line 188
PostHeaders(h) == SetItem(h, "Content-Type", Str(<<"application/json">>))

\* lines 190-192: what a POST puts in the URL
UrlParams(p) ==
    LET u == SetItem(EmptyMap, "f", GetItem(p, "f", Str(<<"json">>)))
    IN IF "token" \in DOMAIN p THEN SetItem(u, "token", p["token"]) ELSE u

\* variant: only f is popped, the token stays in the body
BodyParamsKeepToken(p) == DelItem(p, "f")

\* lines 190-192: what the two pops leave in params, sent as the JSON body
BodyParams(p) == DelItem(DelItem(p, "f"), "token")

\* ------------------------------------------------------ log_http_request
\* variant: the copy is printed as it is
RedactNothing(p) == p

\* lines 86-90 and 112-116: a copy with the token value replaced
Redact(p) == IF "token" \in DOMAIN p THEN SetItem(p, "token", REDACTED) ELSE p

\* lines 77-126: the rendition printed for one request.  body is <<>> for
\* None and <<d>> for a dict d.
LogRendition(p, method, h, body) ==
    [method |-> method,
     query |-> Redact(p),
     headers |-> h,
     body |-> IF Upper(method) = POST /\ body # <<>> /\ DOMAIN body[1] # {}
              THEN <<Redact(body[1])>> ELSE <<>>]

\* lines 77-133: log_http_request as a whole, for a sys.stdout that is open
\* or closed.  On a closed stream the print of line 126 raises ValueError,
\* line 128 catches it, and the print of line 130 raises it again out of the
\* handler.
LogHttpRequest(out, p, method, h, body) ==
    IF out = "open"
    THEN [printed |-> <<LogRendition(p, method, h, body)>>, raised |-> NoOutcome]
    ELSE [printed |-> <<>>,
          raised |-> Raise("ValueError", <<"I/O operation on closed file">>)]

\* ----------------------------------------------------------- dispatch
\* variant: no else branch, an unknown method is sent as a GET
DispatchDefaultGet(method) ==
    IF Upper(method) = POST THEN "POST" ELSE "GET"

\* lines 183, 187, 204: the branch taken for a method value
Dispatch(method) ==
    IF Upper(method) = GET THEN "GET"
    ELSE IF Upper(method) = POST THEN "POST"
    ELSE "unsupported"

\* line 205
UnsupportedMethod(method) ==
    ArcGISError(<<"Unsupported HTTP method: ">> \o method, None)

\* ------------------------------------------------- outcome classification
\* httpx Response.is_success, tested by raise_for_status (line 207)
IsSuccess(status) == 200 <= status /\ status <= 299

\* str(e) of the HTTPStatusError raised by raise_for_status
StatusErrorStr(status) ==
    <<(CASE status \div 100 = 1 -> "Informational response"
         [] status \div 100 = 3 -> "Redirect response"
         [] status \div 100 = 4 -> "Client error"
         [] status \div 100 = 5 -> "Server error"
         [] OTHER -> "Invalid status code"),
      " '", ToString(status), "' for url">>

\* variant: the inner except catches only a body that cannot be decoded
HandleHTTPStatusErrorNarrow(status, body) ==
    LET strE == StatusErrorStr(status)
        fallback == ArcGISError(<<"HTTP Error: ">> \o strE, Num(status))
    IN IF body.kind \in {"notjson", "badbytes"} THEN fallback
       ELSE IF body.kind # "dict"
       THEN Raise("AttributeError", <<"'", body.kind, "' object has no attribute 'get'">>)
       ELSE LET err == GetItem(body.members, "error", Dict(EmptyMap))
            IN IF err.kind # "dict"
               THEN Raise("AttributeError", <<"'", err.kind, "' object has no attribute 'get'">>)
               ELSE ArcGISError(
                      <<"HTTP Error: ">> \o PyStr(GetItem(err.members, "message", Str(strE))),
                      GetItem(err.members, "code", Num(status)))

\* lines 222-233: except httpx.HTTPStatusError.  Any exception inside the
\* inner try (undecodable body, .get on a non-dict) takes the bare except.
HandleHTTPStatusError(status, body) ==
    LET strE == StatusErrorStr(status)
        fallback == ArcGISError(<<"HTTP Error: ">> \o strE, Num(status))
    IN IF body.kind # "dict" THEN fallback
       ELSE LET err == GetItem(body.members, "error", Dict(EmptyMap))
            IN IF err.kind # "dict" THEN fallback
               ELSE ArcGISError(
                      <<"HTTP Error: ">> \o PyStr(GetItem(err.members, "message", Str(strE))),
                      GetItem(err.members, "code", Num(status)))

\* variant: the transport failure is reported like an HTTP status failure
HandleRequestErrorAsHttp(detail) == ArcGISError(<<"HTTP Error: ">> \o detail, None)

\* lines 235-236: except httpx.RequestError
HandleRequestError(detail) == ArcGISError(<<"Request Error: ">> \o detail, None)

\* line 215: "error" in result
ErrorIn(result) ==
    CASE result.kind = "dict" -> "error" \in DOMAIN result.members
      [] result.kind = "list" ->
           \E i \in 1..Len(result.items) : result.items[i] = Str(<<"error">>)
      [] result.kind = "string" -> Contains(<<"error">>, result.s)
      [] OTHER -> FALSE

\* lines 209-220: a response that passed raise_for_status
HandleSuccess(body) ==
    IF body = NotJson
    THEN ArcGISError(<<"Invalid JSON response from ArcGIS API">>, None)
    ELSE IF body = BadBytes
    THEN Raise("UnicodeDecodeError", <<"'utf-8' codec can't decode byte">>)
    ELSE IF body.kind \notin {"dict", "list", "string"}
    THEN Raise("TypeError", <<"argument of type '", body.kind, "' is not iterable">>)
    ELSE IF ~ErrorIn(body) THEN Return(body)
    ELSE IF body.kind # "dict"
    THEN Raise("TypeError", <<body.kind, " indices must be integers">>)
    ELSE LET err == body.members["error"]
         IN IF err.kind # "dict"
            THEN Raise("AttributeError", <<"'", err.kind, "' object has no attribute 'get'">>)
            ELSE ArcGISError(
                   <<"API Error: ">> \o PyStr(GetItem(err.members, "message", Str(<<"Unknown error">>))),
                   GetItem(err.members, "code", Num(0)))

\* lines 207-239: the outcome the with-block reaches for an upstream reply
Classify(reply) ==
    IF reply.kind = "transport" THEN HandleRequestError(reply.detail)
    ELSE IF IsSuccess(reply.status) THEN HandleSuccess(reply.body)
    ELSE HandleHTTPStatusError(reply.status, reply.body)

\* ------------------------------------------------------------------ inputs
\* line 140: the default timeout
DEFAULT_TIMEOUT == 30

\* line 11: the environment variable, "" when it is not set
ApiKeys == {Str(<<>>), Str(<<"keyD">>)}

\* the token argument: None, an empty string or a token
Overrides == {None, Str(<<>>), Str(<<"tokA">>)}

Put(d, k, opt) == IF opt = <<>> THEN d ELSE SetItem(d, k, opt[1])

\* the params argument: None (<<>>) or a dict with any of token, f and q
ParamArgs ==
    {<<>>} \cup
    { <<Put(Put(Put(EmptyMap, "token", t), "f", f), "q", q)>> :
        t \in {<<>>, <<Str(<<"tokC">>)>>},
        f \in {<<>>, <<Str(<<"json">>)>>, <<Str(<<"pjson">>)>>},
        q \in {<<>>, <<Str(<<"coffee">>)>>} }

Methods == {GET, POST, <<"g","e","t">>, <<"P","o","s","t">>, <<"P","U","T">>, <<>>}

Timeouts == {DEFAULT_TIMEOUT, 10}

\* the values an upstream error member takes
ErrorMembers ==
    { None,
      Str(<<"boom">>),
      Dict(EmptyMap),
      Dict(("message" :> Str(<<"Invalid token">>)) @@ ("code" :> Num(498))),
      Dict("message" :> Str(<<"Invalid token">>)),
      Dict("code" :> Num(498)),
      Dict(("message" :> Str(<<"Invalid token">>)) @@ ("code" :> None)),
      Dict(("message" :> None) @@ ("code" :> Num(0))) }

\* response bodies: undecodable, JSON that is not an object, objects with
\* and without an error member
Bodies ==
    { NotJson, BadBytes, None, Num(5),
      Str(<<"ok">>), Str(<<"an ", "error", " occurred">>),
      List(<<>>), List(<<Str(<<"error">>)>>),
      Dict(EmptyMap),
      Dict("results" :> List(<<Str(<<"cafe">>)>>)) }
    \cup { Dict("error" :> e) : e \in ErrorMembers }

Statuses == {200, 299, 300, 404, 500}

\* str(e) of a timeout, a refused connection and a failed name lookup
TransportDetails ==
    { <<>>, <<"All connection attempts failed">>,
      <<"[Errno -2] Name or service not known">> }

\* what the upstream does with a request; it answers every request of one
\* Call Descriptor the same way
Replies ==
    { [kind |-> "transport", status |-> 0, body |-> NotJson, detail |-> d] :
        d \in TransportDetails }
    \cup
    { [kind |-> "response", status |-> st, body |-> b, detail |-> <<>>] :
        st \in Statuses, b \in Bodies }

NoReply == [kind |-> "none", status |-> 0, body |-> NotJson, detail |-> <<>>]

NoDesc == [given |-> FALSE, method |-> <<>>, timeout |-> 0, token |-> None]

\* ------------------------------------------------------------------- state
VARIABLES
    API_KEY,     \* line 11: the process-wide default credential
    desc,        \* the caller's Call Descriptor: method, timeout, token, and
                 \* whether it passes a dict
    heap,        \* the caller's dict object, as it is now
    upstream,    \* the reply the upstream gives to this descriptor
    calls,       \* how many times the descriptor has been submitted
    pc,          \* position of the running call
    supplied,    \* the params argument as it was at the entry of the call
    params,      \* make_arcgis_request's params
    headers,     \* make_arcgis_request's headers
    printed,     \* renditions printed during the call
    clientOpen,  \* the httpx.AsyncClient of the call is open
    exchanges,   \* HTTP exchanges started during the call
    sent,        \* the request handed to the client: <<>> or <<request>>
    pending,     \* the outcome travelling out of the with-block
    history,     \* one record per finished call
    stdout,      \* sys.stdout, open or closed, at the log of line 179 and at
                 \* the log of line 195
    clients,     \* how many httpx.AsyncClient objects have been constructed
    tool,        \* the running invocation of find_nearby_places
    tasks        \* the calls of make_arcgis_request that run concurrently

\* the state of one sequential caller of make_arcgis_request
gateway == <<desc, heap, upstream, calls, pc, supplied, params, headers,
             printed, clientOpen, exchanges, sent, pending, history, clients>>

vars == <<API_KEY, stdout, gateway, tool, tasks>>

\* no invocation of find_nearby_places has started
NoTool == [pc |-> "idle", name |-> "", reply |-> NoReply, caught |-> NoOutcome,
           branch |-> "", includeDetails |-> FALSE, detailsLimit |-> 0,
           places |-> <<>>, detailed_count |-> 0, exchanges |-> 0,
           entries |-> <<>>, result |-> [kind |-> "none", text |-> <<>>]]

\* no concurrent call has started
NoTasks == [started |-> FALSE, key |-> None, overlapped |-> FALSE,
            call |-> <<>>, dicts |-> <<>>, hdrs |-> <<>>]

\* everything but sys.stdout, as it is when the module has been loaded
InitProcess ==
    /\ API_KEY \in ApiKeys
    /\ desc = NoDesc
    /\ heap = EmptyMap
    /\ upstream = NoReply
    /\ calls = 0
    /\ pc = "idle"
    /\ supplied = <<>>
    /\ params = EmptyMap
    /\ headers = EmptyMap
    /\ printed = <<>>
    /\ clientOpen = FALSE
    /\ exchanges = 0
    /\ sent = <<>>
    /\ pending = NoOutcome
    /\ history = <<>>
    /\ clients = 0
    /\ tool = NoTool
    /\ tasks = NoTasks

\* the process runs with a sys.stdout that stays open
Init ==
    /\ InitProcess
    /\ stdout = <<"open", "open">>

\* sys.stdout may be closed from the start, or be closed while the client
\* of a call is being opened
StdoutPlans == {<<"open", "open">>, <<"open", "closed">>, <<"closed", "closed">>}

\* the process runs with a sys.stdout that may be closed
InitLogFaults ==
    /\ InitProcess
    /\ stdout \in StdoutPlans

\* a write to params reaches the caller's dict when the caller passed one
HeapAfter(p) == IF desc.given THEN p ELSE heap

\* the caller builds a Call Descriptor
Construct ==
    /\ pc = "idle"
    /\ \E a \in ParamArgs, m \in Methods, t \in Timeouts, o \in Overrides, r \in Replies :
          /\ desc' = [given |-> a # <<>>, method |-> m, timeout |-> t, token |-> o]
          /\ heap' = IF a # <<>> THEN a[1] ELSE EmptyMap
          /\ upstream' = r
    /\ pc' = "ready"
    /\ UNCHANGED <<tool, tasks, API_KEY, calls, supplied, params, headers, printed, clientOpen,
                   exchanges, sent, pending, history, stdout, clients>>

\* lines 158-179: entry of make_arcgis_request up to the first log.  An
\* exception that leaves log_http_request here leaves the function at once.
Call ==
    /\ pc = "ready"
    /\ calls < MaxCalls
    /\ calls' = calls + 1
    /\ supplied' = IF desc.given THEN <<heap>> ELSE <<>>
    /\ LET p0 == IF desc.given THEN heap ELSE EmptyMap
           p1 == EnsureFormat(ResolveCredential(p0, desc.token, API_KEY))
           log == LogHttpRequest(stdout[1], p1, desc.method, BaseHeaders, <<>>)
       IN /\ params' = p1
          /\ heap' = IF desc.given THEN p1 ELSE heap
          /\ headers' = BaseHeaders
          /\ printed' = log.printed
          /\ pending' = log.raised
          /\ IF log.raised = NoOutcome
             THEN /\ pc' = "client"
                  /\ history' = history
             ELSE /\ pc' = "ready"
                  /\ history' = Append(history,
                        [supplied |-> IF desc.given THEN <<heap>> ELSE <<>>,
                         sent |-> <<>>, outcome |-> log.raised,
                         printed |-> log.printed, exchanges |-> 0, client |-> 0])
    /\ exchanges' = 0
    /\ sent' = <<>>
    /\ UNCHANGED <<tool, tasks, API_KEY, desc, upstream, clientOpen, stdout, clients>>

\* line 181: async with httpx.AsyncClient() as client
OpenClient ==
    /\ pc = "client"
    /\ clientOpen' = TRUE
    /\ clients' = clients + 1
    /\ pc' = "send"
    /\ UNCHANGED <<tool, tasks, API_KEY, desc, heap, upstream, calls, supplied, params, headers,
                   printed, exchanges, sent, pending, history, stdout>>

\* lines 183-186: client.get
SendGet ==
    /\ pc = "send"
    /\ Dispatch(desc.method) = "GET"
    /\ sent' = <<[method |-> "GET", query |-> params, headers |-> headers,
                  json |-> <<>>, timeout |-> desc.timeout]>>
    /\ exchanges' = exchanges + 1
    /\ pc' = "await"
    /\ UNCHANGED <<tool, tasks, API_KEY, desc, heap, upstream, calls, supplied, params, headers,
                   printed, clientOpen, pending, history, stdout, clients>>

\* lines 187-203: client.post.  An exception that leaves log_http_request
\* at line 195 is caught by none of the handlers and leaves the with-block
\* before the request is made.
SendPost ==
    /\ pc = "send"
    /\ Dispatch(desc.method) = "POST"
    /\ LET h == PostHeaders(headers)
           url_params == UrlParams(params)
           body == BodyParams(params)
           log == LogHttpRequest(stdout[2], url_params, desc.method, h, <<body>>)
       IN /\ headers' = h
          /\ params' = body
          /\ heap' = HeapAfter(body)
          /\ printed' = printed \o log.printed
          /\ pending' = log.raised
          /\ IF log.raised = NoOutcome
             THEN /\ sent' = <<[method |-> "POST", query |-> url_params, headers |-> h,
                                json |-> <<body>>, timeout |-> desc.timeout]>>
                  /\ exchanges' = exchanges + 1
                  /\ pc' = "await"
             ELSE /\ sent' = sent
                  /\ exchanges' = exchanges
                  /\ pc' = "exit"
    /\ UNCHANGED <<tool, tasks, API_KEY, desc, upstream, calls, supplied, clientOpen, history,
                   stdout, clients>>

\* lines 204-205: any other method
RejectMethod ==
    /\ pc = "send"
    /\ Dispatch(desc.method) = "unsupported"
    /\ pending' = UnsupportedMethod(desc.method)
    /\ pc' = "exit"
    /\ UNCHANGED <<tool, tasks, API_KEY, desc, heap, upstream, calls, supplied, params, headers,
                   printed, clientOpen, exchanges, sent, history, stdout, clients>>

\* variant: a transport failure is tried again
AfterReceiveRetry(o) ==
    IF o.exc = "ArcGISError" /\ Head(o.message) = "Request Error: " THEN "send" ELSE "exit"

\* lines 222-239: every handler raises, so control leaves the with-block
AfterReceive(o) == "exit"

\* lines 207-239: the exchange completes and the reply is classified
Receive ==
    /\ pc = "await"
    /\ pending' = Classify(upstream)
    /\ pc' = AfterReceive(Classify(upstream))
    /\ UNCHANGED <<tool, tasks, API_KEY, desc, heap, upstream, calls, supplied, params, headers,
                   printed, clientOpen, exchanges, sent, history, stdout, clients>>

\* variant: the client is closed by a plain statement after the block, which
\* an exception skips
ClientOpenAfterExitLeak(o) == o.kind = "raise"

\* line 181: async with closes the client however the block is left
ClientOpenAfterExit(o) == FALSE

\* line 181: the with-block is left, the client is closed and the outcome
\* reaches the caller
CloseClient ==
    /\ pc = "exit"
    /\ clientOpen' = ClientOpenAfterExit(pending)
    /\ history' = Append(history, [supplied |-> supplied, sent |-> sent,
                                  outcome |-> pending, printed |-> printed,
                                  exchanges |-> exchanges, client |-> clients])
    /\ pc' = "ready"
    /\ UNCHANGED <<tool, tasks, API_KEY, desc, heap, upstream, calls, supplied, params, headers,
                   printed, exchanges, sent, pending, stdout, clients>>

Next ==
    \/ Construct
    \/ Call
    \/ OpenClient
    \/ SendGet
    \/ SendPost
    \/ RejectMethod
    \/ Receive
    \/ CloseClient

Spec == Init /\ [][Next]_vars

\* the same program in a process whose sys.stdout may be closed
SpecLogFaults == InitLogFaults /\ [][Next]_vars

\* =========================================================== find_nearby_places
\* lines 42-48: format_error
FormatError(o) ==
    IF o.exc = "ArcGISError" /\ Truthy(o.status_code)
    THEN <<"Error (">> \o PyStr(o.status_code) \o <<"): ">> \o o.message
    ELSE <<"Error: ">> \o o.message

\* what .get raises on a value that is not a dict
AttrErr == Raise("AttributeError", <<"object has no attribute 'get'">>)

\* variant: the handler is except ArcGISError, any other exception leaves
\* the tool
HandleArcGISOnly(e) ==
    IF e.exc = "ArcGISError"
    THEN [kind |-> "error", text |-> FormatError(e)]
    ELSE [kind |-> "escaped", text |-> <<>>]

\* except Exception as e: return format_error(e), the handler of every tool
\* (lines 294, 426, 616, 712, 818, 905, 1127, 1200)
Handle(e) == [kind |-> "error", text |-> FormatError(e)]

\* lines 136-239 for a process whose sys.stdout is open: the outcome of one
\* call of make_arcgis_request and the exchanges it makes
MakeRequest(method, reply) ==
    IF Dispatch(method) = "unsupported"
    THEN [outcome |-> UnsupportedMethod(method), exchanges |-> 0]
    ELSE [outcome |-> Classify(reply), exchanges |-> 1]

RECURSIVE Flatten(_)
\* the concatenation of a sequence of sequences
Flatten(ss) == IF ss = <<>> THEN <<>> ELSE Head(ss) \o Flatten(Tail(ss))

\* "\n".join(lines)
JoinLines(lines) ==
    Flatten([i \in 1..Len(lines) |-> IF i = 1 THEN lines[i] ELSE <<"\n">> \o lines[i]])

\* lines 458-465: the address components and their labels
Components == <<"streetNumber", "streetName", "city", "region", "postalCode", "country">>
Labels == <<"StreetNumber", "Street", "City", "Region", "Postal Code", "Country">>

\* component in address, for whatever type address has
ComponentIn(c, address) ==
    CASE address.kind = "dict" -> c \in DOMAIN address.members
      [] address.kind = "list" ->
           \E i \in 1..Len(address.items) : address.items[i] = Str(<<c>>)
      [] address.kind = "string" -> Contains(<<c>>, address.s)
      [] OTHER -> FALSE

\* lines 456-476: the lines of the address, or an exception
AddressLines(address) ==
    IF address.kind \notin {"dict", "list", "string"}
       \/ (address.kind # "dict" /\ \E i \in 1..6 : ComponentIn(Components[i], address))
    THEN [raises |-> TRUE, lines |-> <<>>]
    ELSE LET found == Flatten([i \in 1..6 |->
                         IF ComponentIn(Components[i], address)
                            /\ Truthy(address.members[Components[i]])
                         THEN << <<"**", Labels[i], "**: ">>
                                 \o PyStr(address.members[Components[i]]) >>
                         ELSE <<>>])
         IN [raises |-> FALSE,
             lines |-> IF found = <<>> THEN <<>>
                       ELSE << <<"**Address Details**:">> >> \o found]

\* lines 478-489: website and email
ContactLines(data) ==
    LET one(k, label) ==
            IF k \in DOMAIN data /\ Truthy(data[k])
            THEN << <<"**", label, "**: ">> \o PyStr(data[k]) >> ELSE <<>>
        found == one("url", "Website") \o one("email", "Email")
    IN IF found = <<>> THEN <<>> ELSE << <<"\n**Contact Information**:">> >> \o found

\* the days an openingHours object is rendered for
Days == <<"monday", "sunday">>

\* lines 491-496: opening hours, or an exception when the member is not a dict
HoursLines(hours) ==
    IF ~Truthy(hours) THEN [raises |-> FALSE, lines |-> <<>>]
    ELSE IF hours.kind # "dict" THEN [raises |-> TRUE, lines |-> <<>>]
    ELSE [raises |-> FALSE,
          lines |-> << <<"\n**Opening Hours**:">> >> \o
                    Flatten([i \in 1..Len(Days) |->
                        IF Days[i] \in DOMAIN hours.members
                        THEN << <<"*", Days[i], "*: ">> \o PyStr(hours.members[Days[i]]) >>
                        ELSE <<>>])]

\* lines 498-500
DescriptionLines(data) ==
    IF "description" \in DOMAIN data /\ Truthy(data["description"])
    THEN << <<"\n**Description**:\n">> \o PyStr(data["description"]) >> ELSE <<>>

\* lines 502-507: the rating, or an exception when the member is not a dict
RatingLines(rating) ==
    IF ~Truthy(rating) THEN [raises |-> FALSE, lines |-> <<>>]
    ELSE IF rating.kind # "dict" THEN [raises |-> TRUE, lines |-> <<>>]
    ELSE [raises |-> FALSE,
          lines |-> << <<"\n**Rating**: ">>
                       \o PyStr(GetItem(rating.members, "value", Str(<<"N/A">>)))
                       \o <<"/5 (">>
                       \o PyStr(GetItem(rating.members, "count", Num(0)))
                       \o <<" reviews)">> >>]

\* variant: only the in-band check, no try around the lookup: an exception of
\* make_arcgis_request or of the formatting leaves the helper
PlaceDetailsInternalNoCatch(o) ==
    IF o.kind = "raise" THEN [raised |-> o, text |-> <<>>]
    ELSE IF o.value.kind # "dict"
    THEN [raised |-> Raise("AttributeError", <<"object has no attribute 'get'">>),
          text |-> <<>>]
    ELSE [raised |-> NoOutcome, text |-> <<>>]

\* lines 430-510: get_place_details_internal, given how its call of
\* make_arcgis_request ended.  Every exception is swallowed (line 509).
PlaceDetailsInternal(o) ==
    IF o.kind = "raise" THEN [raised |-> NoOutcome, text |-> <<>>]
    ELSE IF ~Truthy(o.value) \/ o.value.kind # "dict" \/ ErrorIn(o.value)
    THEN [raised |-> NoOutcome, text |-> <<>>]
    ELSE LET data == o.value.members
             address == AddressLines(GetItem(data, "address", Dict(EmptyMap)))
             hours == HoursLines(GetItem(data, "openingHours", Dict(EmptyMap)))
             rating == RatingLines(GetItem(data, "rating", Dict(EmptyMap)))
         IN IF address.raises \/ hours.raises \/ rating.raises
            THEN [raised |-> NoOutcome, text |-> <<>>]
            ELSE [raised |-> NoOutcome,
                  text |-> JoinLines(address.lines \o ContactLines(data) \o hours.lines
                                     \o DescriptionLines(data) \o rating.lines)]

\* variant: the lookup is made for every place that has an id
WantsDetailsAlways(includeDetails, place_id, detailed_count, detailsLimit) ==
    Truthy(place_id)

\* line 407: is the detail lookup made for this place
WantsDetails(includeDetails, place_id, detailed_count, detailsLimit) ==
    includeDetails /\ Truthy(place_id) /\ detailed_count < detailsLimit

\* the places of a near-point result: with an id, with an empty id, without
PlaceKinds ==
    { Dict(("name" :> Str(<<"Cafe">>)) @@ ("placeId" :> Str(<<"p1">>))),
      Dict(("name" :> Str(<<"Cafe">>)) @@ ("placeId" :> Str(<<>>))),
      Dict("name" :> Str(<<"Cafe">>)) }

RECURSIVE PlaceLists(_)
\* the lists of 1..n places
PlaceLists(n) ==
    IF n = 0 THEN {}
    ELSE { <<pl>> : pl \in PlaceKinds }
         \cup PlaceLists(n - 1)
         \cup { Append(ps, pl) : ps \in PlaceLists(n - 1), pl \in PlaceKinds }

OkReply(body) == [kind |-> "response", status |-> 200, body |-> body, detail |-> <<>>]

\* replies to the near-point search: failures, results without places and
\* results with up to MaxPlaces places
PrimaryReplies ==
    { [kind |-> "transport", status |-> 0, body |-> NotJson, detail |-> <<>>],
      [kind |-> "response", status |-> 404, body |-> NotJson, detail |-> <<>>],
      OkReply(Dict("error" :> Dict(("message" :> Str(<<"Invalid token">>)) @@ ("code" :> Num(498))))),
      OkReply(List(<<>>)),
      OkReply(Dict(EmptyMap)),
      OkReply(Dict("results" :> List(<<>>))) }
    \cup { OkReply(Dict("results" :> List(ps))) : ps \in PlaceLists(MaxPlaces) }

\* replies to a detail lookup: transport failure, non-2xx status, malformed
\* body, in-band error, payloads of an unexpected shape, an object without
\* any detail and an object with details
DetailReplies ==
    { [kind |-> "transport", status |-> 0, body |-> NotJson, detail |-> <<>>],
      [kind |-> "response", status |-> 404, body |-> NotJson, detail |-> <<>>],
      OkReply(NotJson),
      OkReply(BadBytes),
      OkReply(Dict("error" :> Dict(("message" :> Str(<<"Invalid token">>)) @@ ("code" :> Num(498))))),
      OkReply(List(<<Str(<<"cafe">>)>>)),
      OkReply(Dict(("url" :> Str(<<"https://cafe.example">>)) @@ ("address" :> None))),
      OkReply(Dict("rating" :> Num(4))),
      OkReply(Dict("name" :> Str(<<"Cafe">>))),
      OkReply(Dict(("url" :> Str(<<"https://cafe.example">>))
                   @@ ("address" :> Dict("city" :> Str(<<"Redlands">>)))
                   @@ ("rating" :> Dict("value" :> Num(4))))) }

\* what the tool returns
ToolResult(kind, text) == [kind |-> kind, text |-> text]

\* lines 299-334: find_nearby_places is invoked
Invoke ==
    /\ tool.pc = "idle"
    /\ \E inc \in BOOLEAN, lim \in 0..MaxLimit :
          tool' = [tool EXCEPT !.pc = "primary", !.name = "find_nearby_places",
                               !.includeDetails = inc, !.detailsLimit = lim]
    /\ UNCHANGED <<API_KEY, stdout, gateway, tasks>>

\* lines 335-350 and 426-427: the near-point call and what it yields
Primary ==
    /\ tool.pc = "primary"
    /\ \E r \in PrimaryReplies :
          LET res == MakeRequest(GET, r)
              o == res.outcome
              places == IF o.kind = "return" /\ o.value.kind = "dict"
                        THEN GetItem(o.value.members, "results", List(<<>>)).items
                        ELSE <<>>
          IN tool' =
               IF o.kind = "raise"
               THEN [tool EXCEPT !.pc = "done", !.exchanges = res.exchanges,
                                 !.reply = r, !.caught = o, !.branch = "except",
                                 !.result = Handle(o)]
               ELSE IF o.value.kind # "dict"
               THEN [tool EXCEPT !.pc = "done", !.exchanges = res.exchanges,
                                 !.reply = r, !.caught = AttrErr, !.branch = "except",
                                 !.result = Handle(AttrErr)]
               ELSE IF places = <<>>
               THEN [tool EXCEPT !.pc = "done", !.exchanges = res.exchanges,
                                 !.reply = r, !.branch = "empty",
                                 !.result = ToolResult("text",
                                     <<"No places found matching your criteria.">>)]
               ELSE [tool EXCEPT !.pc = "loop", !.exchanges = res.exchanges,
                                 !.reply = r, !.places = places]
    /\ UNCHANGED <<API_KEY, stdout, gateway, tasks>>

\* the place the loop of line 353 handles next
NextPlace == tool.places[Len(tool.entries) + 1]

\* lines 354-403: the basic listing of a place
Listing(place) ==
    [name |-> GetItem(place.members, "name", Str(<<"Unknown Place">>)),
     place_id |-> GetItem(place.members, "placeId", Str(<<>>)),
     looked |-> FALSE, lookup |-> NoOutcome, section |-> FALSE, detail |-> <<>>]

\* lines 353-416: a place is listed without a detail lookup
PlaceWithoutLookup ==
    /\ tool.pc = "loop"
    /\ Len(tool.entries) < Len(tool.places)
    /\ ~WantsDetails(tool.includeDetails, Listing(NextPlace).place_id,
                     tool.detailed_count, tool.detailsLimit)
    /\ tool' = [tool EXCEPT !.entries = Append(tool.entries, Listing(NextPlace))]
    /\ UNCHANGED <<API_KEY, stdout, gateway, tasks>>

\* lines 353-416: a place is listed after a detail lookup
PlaceWithLookup ==
    /\ tool.pc = "loop"
    /\ Len(tool.entries) < Len(tool.places)
    /\ WantsDetails(tool.includeDetails, Listing(NextPlace).place_id,
                    tool.detailed_count, tool.detailsLimit)
    /\ \E r \in DetailReplies :
          LET res == MakeRequest(GET, r)
              det == PlaceDetailsInternal(res.outcome)
              entry == [Listing(NextPlace) EXCEPT !.looked = TRUE,
                                                  !.lookup = res.outcome,
                                                  !.section = det.text # <<>>,
                                                  !.detail = det.text]
          IN tool' =
               IF det.raised # NoOutcome
               THEN [tool EXCEPT !.pc = "done",
                                 !.exchanges = tool.exchanges + res.exchanges,
                                 !.caught = det.raised, !.branch = "except",
                                 !.result = Handle(det.raised)]
               ELSE [tool EXCEPT !.exchanges = tool.exchanges + res.exchanges,
                                 !.entries = Append(tool.entries, entry),
                                 !.detailed_count =
                                     IF det.text # <<>> THEN tool.detailed_count + 1
                                     ELSE tool.detailed_count]
    /\ UNCHANGED <<API_KEY, stdout, gateway, tasks>>

\* lines 418-424: the listing is returned
ReturnListing ==
    /\ tool.pc = "loop"
    /\ Len(tool.entries) = Len(tool.places)
    /\ tool' = [tool EXCEPT !.pc = "done", !.branch = "listing",
                            !.result = ToolResult("listing",
                                <<"# Found ", ToString(Len(tool.places)), " nearby places">>)]
    /\ UNCHANGED <<API_KEY, stdout, gateway, tasks>>

NextPlaces ==
    \/ Invoke
    \/ Primary
    \/ PlaceWithoutLookup
    \/ PlaceWithLookup
    \/ ReturnListing

\* one invocation of find_nearby_places
SpecPlaces == Init /\ [][NextPlaces]_vars

\* ================================================================ the tools
\* An expression of a tool body evaluates to a value or raises; a raised
\* exception is carried as the outcome record of Raise and propagates
\* through the operations applied to it.
IsExc(v) == v.kind = "raise"

TypeErr == Raise("TypeError", <<"object is not iterable or subscriptable">>)
KeyErr == Raise("KeyError", <<"0">>)
IndexErr == Raise("IndexError", <<"list index out of range">>)
ValueErr == Raise("ValueError", <<"Cannot specify ',' with 's'.">>)
LowerErr == Raise("AttributeError", <<"object has no attribute 'lower'">>)

\* v.get(k, default)
PyGet(v, k, default) ==
    IF IsExc(v) THEN v
    ELSE IF v.kind = "dict" THEN GetItem(v.members, k, default)
    ELSE AttrErr

\* v[k] for a str k
PyItem(v, k) ==
    IF IsExc(v) THEN v
    ELSE IF v.kind = "dict"
    THEN IF k \in DOMAIN v.members THEN v.members[k] ELSE KeyErr
    ELSE TypeErr

\* v[0]
PyFirst(v) ==
    IF IsExc(v) THEN v
    ELSE CASE v.kind = "list" -> IF v.items # <<>> THEN v.items[1] ELSE IndexErr
           [] v.kind = "string" -> IF v.s # <<>> THEN Str(<<v.s[1]>>) ELSE IndexErr
           [] v.kind = "dict" -> KeyErr
           [] OTHER -> TypeErr

\* k in v, when it does not raise
KeyIn(k, v) ==
    CASE v.kind = "dict" -> k \in DOMAIN v.members
      [] v.kind = "list" -> \E i \in 1..Len(v.items) : v.items[i] = Str(<<k>>)
      [] v.kind = "string" -> Contains(<<k>>, v.s)
      [] OTHER -> FALSE

\* what k in v raises, NoOutcome when it raises nothing
InExc(v) ==
    IF IsExc(v) THEN v
    ELSE IF v.kind \in {"dict", "list", "string"} THEN NoOutcome ELSE TypeErr

\* what iterating v (or len(v)) raises
IterExc(v) == InExc(v)

\* the elements a for loop over v sees: a dict gives its keys and a str its
\* characters, which are strings
IterItems(v) ==
    CASE v.kind = "list" -> v.items
      [] v.kind = "string" -> [i \in 1..Len(v.s) |-> Str(<<v.s[i]>>)]
      [] v.kind = "dict" -> [i \in 1..Cardinality(DOMAIN v.members) |-> Str(<<"key">>)]
      [] OTHER -> <<>>

\* what f"{v:,}" raises
NumFormatExc(v) ==
    IF IsExc(v) THEN v
    ELSE CASE v.kind = "number" -> NoOutcome
           [] v.kind = "string" -> ValueErr
           [] OTHER -> TypeErr

\* what v > 0 raises
CompareExc(v) ==
    IF IsExc(v) THEN v ELSE IF v.kind = "number" THEN NoOutcome ELSE TypeErr

\* lines 51-58: what reference_to_readable raises (reference.lower())
ReadableExc(v) ==
    IF IsExc(v) THEN v ELSE IF v.kind = "string" THEN NoOutcome ELSE LowerErr

\* the first exception of a sequence of evaluations, NoOutcome when none raises
FirstExc(vs) ==
    IF \E i \in 1..Len(vs) : IsExc(vs[i])
    THEN vs[CHOOSE i \in 1..Len(vs) : IsExc(vs[i]) /\ \A j \in 1..(i - 1) : ~IsExc(vs[j])]
    ELSE NoOutcome

\* the try block of a tool returned text at one of its return statements
Ok(text, branch) == [raised |-> NoOutcome, text |-> text, branch |-> branch]

\* the try block of a tool raised
Fail(e) == [raised |-> e, text |-> <<>>, branch |-> "except"]

\* the tool ends: with the text of the try block, or in its handler
Finish(name, r, ex, b) ==
    [tool EXCEPT !.pc = "done", !.name = name, !.reply = r, !.exchanges = ex,
                 !.caught = b.raised, !.branch = b.branch,
                 !.result = IF b.raised # NoOutcome THEN Handle(b.raised)
                            ELSE ToolResult("text", b.text)]

\* the members an upstream error object has in the replies to the tools
ToolErrors ==
    { Dict(("message" :> Str(<<"Invalid token">>)) @@ ("code" :> Num(498))),
      Dict(("message" :> Str(<<"Invalid token">>)) @@ ("code" :> Num(0))),
      Dict("message" :> Str(<<"Invalid token">>)),
      Dict(("message" :> Str(<<"Invalid token">>)) @@ ("code" :> None)),
      Dict(("message" :> Str(<<"Forbidden">>)) @@ ("code" :> Num(403))),
      Dict(("message" :> Str(<<"JSONDecodeError", ": bad studyAreas">>))
           @@ ("code" :> Num(400))),
      Str(<<"boom">>) }

\* replies every tool has to cope with: transport failure, non-2xx status,
\* undecodable body, JSON that is not an object, in-band errors
FailureReplies ==
    { [kind |-> "transport", status |-> 0, body |-> NotJson,
       detail |-> <<"All connection attempts failed">>],
      [kind |-> "response", status |-> 404, body |-> NotJson, detail |-> <<>>],
      OkReply(NotJson), OkReply(BadBytes), OkReply(None), OkReply(List(<<>>)),
      OkReply(Str(<<"ok">>)) }
    \cup { OkReply(Dict("error" :> e)) : e \in ToolErrors }

\* ------------------------------------------------------- get_basemap_tile
\* what the tile service does with the HEAD request
BasemapReplies ==
    { [kind |-> "transport", status |-> 0, body |-> NotJson,
       detail |-> <<"All connection attempts failed">>],
      [kind |-> "response", status |-> 200, body |-> NotJson, detail |-> <<>>],
      [kind |-> "response", status |-> 404, body |-> NotJson, detail |-> <<>>] }

\* lines 268-292: the try block of get_basemap_tile
BasemapBody(r) ==
    IF r.kind = "transport" THEN Fail(Raise("ConnectError", r.detail))
    ELSE IF r.status = 200 THEN Ok(<<"# Basemap Tile Information">>, "result")
    ELSE Ok(<<"Tile not found or not accessible. Status code: ", ToString(r.status)>>,
            "empty")

\* lines 248-295: get_basemap_tile
GetBasemapTile ==
    /\ tool.pc = "idle"
    /\ \E r \in BasemapReplies :
          tool' = Finish("get_basemap_tile", r, 1, BasemapBody(r))
    /\ UNCHANGED <<API_KEY, stdout, gateway, tasks>>

\* ---------------------------------------------------------------- geocode
\* lines 669-679: what formatting one candidate raises
CandidateExc(candidate) ==
    LET location == PyGet(candidate, "location", Dict(EmptyMap))
        attrs == PyGet(candidate, "attributes", Dict(EmptyMap))
    IN FirstExc(<<location, attrs,
                  PyGet(attrs, "Match_addr", Str(<<"Unknown">>)),
                  PyGet(location, "y", Str(<<"Unknown">>))>>)

\* lines 659-710: the try block of geocode
GeocodeBody(o) ==
    IF o.kind = "raise" THEN Fail(o)
    ELSE LET candidates == PyGet(o.value, "candidates", List(<<>>))
             items == IterItems(candidates)
             excs == FirstExc(<<candidates>>
                              \o (IF IsExc(candidates) \/ ~Truthy(candidates) THEN <<>>
                                  ELSE <<IterExc(candidates)>>
                                       \o [i \in 1..Len(items) |-> CandidateExc(items[i])]))
         IN IF excs # NoOutcome THEN Fail(excs)
            ELSE IF ~Truthy(candidates)
            THEN Ok(<<"No matches found for the given search.">>, "empty")
            ELSE Ok(<<"# Geocoding results">>, "result")

GeocodeReplies ==
    FailureReplies \cup
    { OkReply(Dict(EmptyMap)),
      OkReply(Dict("candidates" :> List(<<>>))),
      OkReply(Dict("candidates" :> Num(5))),
      OkReply(Dict("candidates" :> List(<<Str(<<"x">>)>>))),
      OkReply(Dict("candidates" :> List(<<Dict("attributes" :> None)>>))),
      OkReply(Dict("candidates" :> List(<<Dict(("score" :> Num(100))
          @@ ("attributes" :> Dict("Match_addr" :> Str(<<"380 New York St">>)))
          @@ ("location" :> Dict(("x" :> Num(-117)) @@ ("y" :> Num(34)))))>>))) }

\* lines 621-713: geocode
Geocode ==
    /\ tool.pc = "idle"
    /\ \E r \in GeocodeReplies :
          LET res == MakeRequest(GET, r)
          IN tool' = Finish("geocode", r, res.exchanges, GeocodeBody(res.outcome))
    /\ UNCHANGED <<API_KEY, stdout, gateway, tasks>>

\* -------------------------------------------------------- reverse_geocode
\* the strings float() accepts among the parts used here
FloatStrings == {"-79.3871", "43.6426", "0"}

\* the location argument as location.split(",") sees it: the empty string,
\* no comma, not numeric, three parts, well formed
Locations ==
    { <<"">>, <<"here">>, <<"here", "43.6426">>, <<"-79.3871", "43.6426", "0">>,
      <<"-79.3871", "43.6426">> }

\* lines 727-733: the text the validation returns, <<>> when it passes.  Two
\* targets are unpacked from map(float, ...), so anything but two numeric
\* parts raises the ValueError caught at line 732.
LocationProblem(parts) ==
    IF parts = <<"">> \/ Len(parts) = 1
    THEN <<"Error: ", "Location must be formatted as 'longitude,latitude'">>
    ELSE IF Len(parts) # 2 \/ \E i \in 1..Len(parts) : parts[i] \notin FloatStrings
    THEN <<"Error: ", "Invalid coordinates. Location must contain numeric longitude and latitude values.">>
    ELSE <<>>

\* lines 744-816: the try block of reverse_geocode
ReverseGeocodeBody(o) ==
    IF o.kind = "raise" THEN Fail(o)
    ELSE LET data == o.value
             message == PyItem(PyItem(data, "error"), "message")
             address == PyItem(data, "address")
             loc == PyItem(data, "location")
             sr == PyItem(loc, "spatialReference")
             excs == FirstExc(
                       <<address,
                         PyGet(address, "Address", Str(<<"Address not available">>)),
                         InExc(address)>>
                       \o (IF KeyIn("location", data)
                           THEN <<loc, InExc(loc)>>
                                \o (IF ~IsExc(loc) /\ KeyIn("spatialReference", loc)
                                    THEN <<sr, PyGet(sr, "wkid", Str(<<"Unknown">>))>>
                                    ELSE <<>>)
                           ELSE <<>>))
         IN IF InExc(data) # NoOutcome THEN Fail(InExc(data))
            ELSE IF KeyIn("error", data)
            THEN IF IsExc(message) THEN Fail(message)
                 ELSE Ok(<<"Error: ">> \o PyStr(message), "inband")
            ELSE IF ~KeyIn("address", data)
            THEN Ok(<<"No address found at coordinates">>, "empty")
            ELSE IF excs # NoOutcome THEN Fail(excs)
            ELSE Ok(<<"# Reverse Geocoding Results">>, "result")

ReverseGeocodeReplies ==
    FailureReplies \cup
    { OkReply(Dict(EmptyMap)),
      OkReply(List(<<Str(<<"address">>)>>)),
      OkReply(Dict("address" :> None)),
      OkReply(Dict(("address" :> Dict("Match_addr" :> Str(<<"CN Tower">>)))
                   @@ ("location" :> None))),
      OkReply(Dict(("address" :> Dict("Match_addr" :> Str(<<"CN Tower">>)))
                   @@ ("location" :> Dict("spatialReference" :> Num(4326))))),
      OkReply(Dict(("address" :> Dict("Match_addr" :> Str(<<"CN Tower">>)))
                   @@ ("location" :> Dict("spatialReference" :>
                                            Dict("wkid" :> Num(4326)))))) }

\* lines 717-819: reverse_geocode
ReverseGeocode ==
    /\ tool.pc = "idle"
    /\ \E parts \in Locations :
          IF LocationProblem(parts) # <<>>
          THEN tool' = Finish("reverse_geocode", NoReply, 0,
                              Ok(LocationProblem(parts), "invalid"))
          ELSE \E r \in ReverseGeocodeReplies :
                  LET res == MakeRequest(GET, r)
                  IN tool' = Finish("reverse_geocode", r, res.exchanges,
                                    ReverseGeocodeBody(res.outcome))
    /\ UNCHANGED <<API_KEY, stdout, gateway, tasks>>

\* --------------------------------------------------------- get_directions
\* how many stops stops.split(";") gives
StopCounts == {1, 2, 3}

\* lines 893-899: what formatting one direction raises
DirectionExc(direction) ==
    LET attrs == PyGet(direction, "attributes", Dict(EmptyMap))
    IN FirstExc(<<attrs,
                  PyGet(attrs, "text", Str(<<"Unknown direction">>)),
                  CompareExc(PyGet(attrs, "length", Num(0)))>>)

\* lines 886-901: what the turn-by-turn part raises
DirectionsExc(data) ==
    IF ~KeyIn("directions", data) THEN NoOutcome
    ELSE LET features == PyGet(PyFirst(PyItem(data, "directions")), "features", List(<<>>))
             items == IterItems(features)
         IN FirstExc(<<features>>
                     \o (IF IsExc(features) \/ ~Truthy(features) THEN <<>>
                         ELSE <<IterExc(features)>>
                              \o [i \in 1..Len(items) |-> DirectionExc(items[i])]))

\* lines 841-903: the try block of get_directions
GetDirectionsBody(o) ==
    IF o.kind = "raise" THEN Fail(o)
    ELSE LET data == o.value
             message == PyItem(PyItem(data, "error"), "message")
             routes == PyGet(data, "routes", None)
             features == PyGet(routes, "features", None)
             route == PyFirst(features)
             attributes == PyGet(route, "attributes", Dict(EmptyMap))
             excs == FirstExc(<<route, attributes,
                                PyGet(attributes, "Total_Kilometers", Str(<<"Unknown">>)),
                                DirectionsExc(data)>>)
         IN IF InExc(data) # NoOutcome THEN Fail(InExc(data))
            ELSE IF KeyIn("error", data)
            THEN IF IsExc(message) THEN Fail(message)
                 ELSE Ok(<<"Error getting directions: ">> \o PyStr(message), "inband")
            ELSE IF IsExc(routes) THEN Fail(routes)
            ELSE IF ~Truthy(routes)
            THEN Ok(<<"No route found between the specified locations.">>, "empty")
            ELSE IF IsExc(features) THEN Fail(features)
            ELSE IF ~Truthy(features)
            THEN Ok(<<"No route found between the specified locations.">>, "empty")
            ELSE IF excs # NoOutcome THEN Fail(excs)
            ELSE Ok(<<"# Route Directions">>, "result")

\* a well-formed route
RouteOk ==
    Dict("features" :> List(<<Dict("attributes" :> Dict("Total_Minutes" :> Num(75)))>>))

GetDirectionsReplies ==
    FailureReplies \cup
    { OkReply(Dict(EmptyMap)),
      OkReply(Dict("routes" :> Num(1))),
      OkReply(Dict("routes" :> Dict("features" :> List(<<>>)))),
      OkReply(Dict("routes" :> Dict("features" :> Str(<<"none">>)))),
      OkReply(Dict("routes" :> RouteOk)),
      OkReply(Dict(("routes" :> RouteOk) @@ ("directions" :> List(<<>>)))),
      OkReply(Dict(("routes" :> RouteOk) @@ ("directions" :> List(<<
          Dict("features" :> List(<<Dict("attributes" :>
              Dict(("text" :> Str(<<"Go north">>)) @@ ("length" :> Str(<<"1.5">>))))>>))>>)))),
      OkReply(Dict(("routes" :> RouteOk) @@ ("directions" :> List(<<
          Dict("features" :> List(<<Dict("attributes" :>
              Dict(("text" :> Str(<<"Go north">>)) @@ ("length" :> Num(2))))>>))>>)))) }

\* lines 823-906: get_directions
GetDirections ==
    /\ tool.pc = "idle"
    /\ \E n \in StopCounts :
          IF n < 2
          THEN tool' = Finish("get_directions", NoReply, 0,
                              Ok(<<"Error: ", "At least two stops are required">>, "invalid"))
          ELSE \E r \in GetDirectionsReplies :
                  LET res == MakeRequest(GET, r)
                  IN tool' = Finish("get_directions", r, res.exchanges,
                                    GetDirectionsBody(res.outcome))
    /\ UNCHANGED <<API_KEY, stdout, gateway, tasks>>

\* ---------------------------------------------------------- get_elevation
\* lines 1119-1123: what the spatial reference of a point raises
SpatialRefExc(point) ==
    LET spatial_ref == PyGet(point, "spatialReference", Dict(EmptyMap))
    IN IF IsExc(spatial_ref) THEN spatial_ref
       ELSE IF ~Truthy(spatial_ref) THEN NoOutcome
       ELSE IF InExc(spatial_ref) # NoOutcome THEN InExc(spatial_ref)
       ELSE IF KeyIn("wkid", spatial_ref) THEN PyGet(spatial_ref, "wkid", None)
       ELSE NoOutcome

\* lines 1092-1125: the try block of the single-point branch
ElevationPointBody(o) ==
    IF o.kind = "raise" THEN Fail(o)
    ELSE LET data == o.value
             message == PyItem(PyItem(data, "error"), "message")
             elevation_info == PyGet(data, "elevationInfo", Dict(EmptyMap))
             point == PyGet(PyGet(data, "result", Dict(EmptyMap)), "point", Dict(EmptyMap))
             elevation == PyGet(point, "z", None)
             reference == PyGet(elevation_info, "relativeTo", Str(<<"meanSeaLevel">>))
         IN IF InExc(data) # NoOutcome THEN Fail(InExc(data))
            ELSE IF KeyIn("error", data)
            THEN IF IsExc(message) THEN Fail(message)
                 ELSE Ok(<<"Error retrieving elevation data: ">> \o PyStr(message), "inband")
            ELSE IF FirstExc(<<elevation_info, elevation>>) # NoOutcome
            THEN Fail(FirstExc(<<elevation_info, elevation>>))
            ELSE IF elevation = None
            THEN Ok(<<"No elevation data available for location">>, "empty")
            ELSE LET excs == FirstExc(<<reference, NumFormatExc(elevation),
                                        ReadableExc(reference), SpatialRefExc(point)>>)
                 IN IF excs # NoOutcome THEN Fail(excs)
                    ELSE Ok(<<"# Elevation Data">>, "result")

\* lines 1170-1180: what formatting one point raises
PointExc(point) ==
    LET z == PyGet(point, "z", None)
    IN IF IsExc(z) THEN z ELSE IF z = None THEN NoOutcome ELSE NumFormatExc(z)

\* lines 1143-1198: the try block of the many-points branch
ElevationManyBody(o) ==
    IF o.kind = "raise" THEN Fail(o)
    ELSE LET data == o.value
             message == PyItem(PyItem(data, "error"), "message")
             elevation_info == PyGet(data, "elevationInfo", Dict(EmptyMap))
             points == PyGet(PyGet(data, "result", Dict(EmptyMap)), "points", List(<<>>))
             reference == PyGet(elevation_info, "relativeTo", Str(<<"meanSeaLevel">>))
             items == IterItems(points)
         IN IF InExc(data) # NoOutcome THEN Fail(InExc(data))
            ELSE IF KeyIn("error", data)
            THEN IF IsExc(message) THEN Fail(message)
                 ELSE Ok(<<"Error retrieving elevation data: ">> \o PyStr(message), "inband")
            ELSE IF FirstExc(<<elevation_info, points, reference>>) # NoOutcome
            THEN Fail(FirstExc(<<elevation_info, points, reference>>))
            ELSE IF ~Truthy(points)
            THEN Ok(<<"No elevation data returned for the specified coordinates.">>, "empty")
            ELSE LET excs == FirstExc(<<ReadableExc(reference), IterExc(points)>>
                                      \o [i \in 1..Len(items) |-> PointExc(items[i])])
                 IN IF excs # NoOutcome THEN Fail(excs)
                    ELSE Ok(<<"# Multiple Elevation Results">>, "result")

ElevationPointReplies ==
    FailureReplies \cup
    { OkReply(Dict(EmptyMap)),
      OkReply(Dict("result" :> None)),
      OkReply(Dict("result" :> Dict("point" :> Dict("z" :> Str(<<"12">>))))),
      OkReply(Dict(("result" :> Dict("point" :> Dict("z" :> Num(12))))
                   @@ ("elevationInfo" :> Dict("relativeTo" :> None)))),
      OkReply(Dict("result" :> Dict("point" :>
          Dict(("z" :> Num(12)) @@ ("spatialReference" :> Num(4326)))))),
      OkReply(Dict("result" :> Dict("point" :>
          Dict(("z" :> Num(12)) @@ ("spatialReference" :> Dict("wkid" :> Num(4326))))))) }

ElevationManyReplies ==
    FailureReplies \cup
    { OkReply(Dict(EmptyMap)),
      OkReply(Dict("result" :> Dict("points" :> Num(2)))),
      OkReply(Dict("result" :> Dict("points" :> List(<<Num(12)>>)))),
      OkReply(Dict("result" :> Dict("points" :> List(<<Dict("z" :> Str(<<"12">>))>>)))),
      OkReply(Dict("result" :> Dict("points" :>
          List(<<Dict("z" :> Num(12)), Dict("x" :> Num(1))>>)))) }

\* the arguments of get_elevation: lon and lat, coordinates, or neither
ElevationModes == {"point", "many", "none"}

\* lines 1066-1203: get_elevation
GetElevation ==
    /\ tool.pc = "idle"
    /\ \E mode \in ElevationModes :
          CASE mode = "point" ->
                 \E r \in ElevationPointReplies :
                    LET res == MakeRequest(GET, r)
                    IN tool' = Finish("get_elevation", r, res.exchanges,
                                      ElevationPointBody(res.outcome))
            [] mode = "many" ->
                 \E r \in ElevationManyReplies :
                    LET res == MakeRequest(POST, r)
                    IN tool' = Finish("get_elevation", r, res.exchanges,
                                      ElevationManyBody(res.outcome))
            [] OTHER ->
                 tool' = Finish("get_elevation", NoReply, 0,
                                Ok(<<"Error: ", "Either lon/lat or coordinates parameter must be provided.">>,
                                   "invalid"))
    /\ UNCHANGED <<API_KEY, stdout, gateway, tasks>>

\* ------------------------------------- get_place_details (not registered)
\* lines 547-612: what formatting the details raises
PlaceFormatExc(data) ==
    LET address == PyGet(data, "address", Dict(EmptyMap))
        category == PyGet(data, "category", Dict(EmptyMap))
        hours == PyGet(data, "openingHours", Dict(EmptyMap))
        location == PyGet(data, "location", Dict(EmptyMap))
        rating == PyGet(data, "rating", Dict(EmptyMap))
        whenTruthy(v) == IF ~IsExc(v) /\ Truthy(v) THEN PyGet(v, "label", None) ELSE v
    IN FirstExc(<<PyGet(data, "name", Str(<<"Unknown Place">>)),
                  whenTruthy(address), whenTruthy(category), whenTruthy(hours),
                  InExc(location),
                  IF ~IsExc(location) /\ KeyIn("x", location) /\ KeyIn("y", location)
                  THEN PyItem(location, "y") ELSE NoOutcome,
                  whenTruthy(rating)>>)

\* lines 528-614: the try block of get_place_details
GetPlaceDetailsBody(o) ==
    IF o.kind = "raise" THEN Fail(o)
    ELSE LET data == o.value
             message == PyGet(PyGet(data, "error", Dict(EmptyMap)),
                              "message", Str(<<"Unknown error">>))
         IN IF ~Truthy(data)
            THEN IF InExc(data) # NoOutcome THEN Fail(InExc(data))
                 ELSE Ok(<<"Error retrieving place details: ", "No details found">>, "empty")
            ELSE IF InExc(data) # NoOutcome THEN Fail(InExc(data))
            ELSE IF KeyIn("error", data)
            THEN IF IsExc(message) THEN Fail(message)
                 ELSE Ok(<<"Error retrieving place details: ">> \o PyStr(message), "inband")
            ELSE IF PlaceFormatExc(data) # NoOutcome THEN Fail(PlaceFormatExc(data))
            ELSE Ok(<<"# ">> \o PyStr(PyGet(data, "name", Str(<<"Unknown Place">>))),
                    "result")

GetPlaceDetailsReplies ==
    FailureReplies \cup
    { OkReply(Dict(EmptyMap)),
      OkReply(List(<<Str(<<"cafe">>)>>)),
      OkReply(Dict(("name" :> Str(<<"Cafe">>)) @@ ("address" :> Str(<<"Main St">>)))),
      OkReply(Dict(("name" :> Str(<<"Cafe">>)) @@ ("location" :> None))),
      OkReply(Dict(("name" :> Str(<<"Cafe">>))
                   @@ ("rating" :> Dict("value" :> Num(4))))) }

\* the place_id argument
PlaceIds == {Str(<<>>), Str(<<"p1">>)}

\* lines 514-617: get_place_details
GetPlaceDetails ==
    /\ tool.pc = "idle"
    /\ \E place_id \in PlaceIds :
          IF ~Truthy(place_id)
          THEN tool' = Finish("get_place_details", NoReply, 0,
                              Ok(<<"Error: ", "place_id is required.">>, "invalid"))
          ELSE \E r \in GetPlaceDetailsReplies :
                  LET res == MakeRequest(GET, r)
                  IN tool' = Finish("get_place_details", r, res.exchanges,
                                    GetPlaceDetailsBody(res.outcome))
    /\ UNCHANGED <<API_KEY, stdout, gateway, tasks>>

\* ------------------------------------- get_geoenrichment (not registered)
\* lines 977-987: what one feature raises
FeatureExc(feature) ==
    LET attributes == PyGet(feature, "attributes", Dict(EmptyMap))
        geometry == PyGet(feature, "geometry", Dict(EmptyMap))
    IN IF IsExc(attributes) THEN attributes
       ELSE IF ~Truthy(attributes) THEN NoOutcome
       ELSE FirstExc(<<IF Truthy(geometry) THEN InExc(geometry) ELSE NoOutcome,
                       IF Truthy(geometry) /\ KeyIn("x", geometry) /\ KeyIn("y", geometry)
                       THEN PyItem(geometry, "y") ELSE NoOutcome,
                       IF attributes.kind = "dict" THEN NoOutcome
                       ELSE Raise("AttributeError", <<"object has no attribute 'items'">>)>>)

\* lines 945-1055: the try block of get_geoenrichment
GetGeoenrichmentBody(o) ==
    IF o.kind = "raise" THEN Fail(o)
    ELSE LET data == o.value
             error == PyGet(data, "error", Dict(EmptyMap))
             message == PyGet(error, "message", Str(<<"Unknown error">>))
             code == PyGet(error, "code", None)
             results == PyGet(data, "results", None)
             value == PyGet(PyFirst(results), "value", None)
             sets == PyItem(value, "FeatureSet")
             features == PyGet(PyFirst(sets), "features", List(<<>>))
             items == IterItems(features)
         IN IF InExc(data) # NoOutcome THEN Fail(InExc(data))
            ELSE IF KeyIn("error", data)
            THEN IF FirstExc(<<message, code>>) # NoOutcome
                 THEN Fail(FirstExc(<<message, code>>))
                 ELSE IF code = Num(403)
                 THEN Ok(<<"Authentication Error: ",
                           "Your account doesn't have permission to use geoenrichment services.">>,
                         "inband")
                 ELSE Ok(<<"Error accessing geoenrichment service: ">> \o PyStr(message),
                         "inband")
            ELSE IF IsExc(results) THEN Fail(results)
            ELSE IF ~Truthy(results)
            THEN Ok(<<"No enrichment data available for the specified locations.">>, "empty")
            ELSE IF IsExc(value) THEN Fail(value)
            ELSE IF ~Truthy(value)
            THEN Ok(<<"No enrichment data available for the specified locations.">>, "empty")
            ELSE IF InExc(value) # NoOutcome THEN Fail(InExc(value))
            ELSE IF ~KeyIn("FeatureSet", value)
            THEN Ok(<<"No demographic data was returned for this location.">>, "empty")
            ELSE IF IsExc(sets) THEN Fail(sets)
            ELSE IF ~Truthy(sets)
            THEN Ok(<<"No demographic data was returned for this location.">>, "empty")
            ELSE IF IsExc(features) THEN Fail(features)
            ELSE IF ~Truthy(features)
            THEN Ok(<<"No demographic features found for this location.">>, "empty")
            ELSE LET excs == FirstExc(<<IterExc(features)>>
                                      \o [i \in 1..Len(items) |-> FeatureExc(items[i])])
                 IN IF excs # NoOutcome THEN Fail(excs)
                    ELSE Ok(<<"# Demographic Data">>, "result")

\* lines 1057-1062: the handler of get_geoenrichment
HandleGeoenrichment(e) ==
    IF Contains(<<"JSONDecodeError">>, e.message)
    THEN [kind |-> "text",
          text |-> <<"Error: ", "Invalid JSON format for studyAreas parameter.">>]
    ELSE Handle(e)

\* a result with one feature set holding the given features
Enriched(features) ==
    Dict("results" :> List(<<Dict("value" :>
        Dict("FeatureSet" :> List(<<Dict("features" :> features)>>)))>>))

GetGeoenrichmentReplies ==
    FailureReplies \cup
    { OkReply(Dict(EmptyMap)),
      OkReply(Dict("results" :> Num(1))),
      OkReply(Dict("results" :> List(<<Dict("value" :> Num(1))>>))),
      OkReply(Dict("results" :> List(<<Dict("value" :> Dict("FeatureSet" :> List(<<>>)))>>))),
      OkReply(Enriched(List(<<>>))),
      OkReply(Enriched(List(<<Dict("attributes" :> Str(<<"none">>))>>))),
      OkReply(Enriched(List(<<Dict("attributes" :> Dict("TOTPOP" :> Num(1000)))>>))) }

\* the arguments of get_geoenrichment: x and y, studyAreas, or neither
StudyAreaModes == {"xy", "studyAreas", "none"}

\* lines 910-1062: get_geoenrichment
GetGeoenrichment ==
    /\ tool.pc = "idle"
    /\ \E mode \in StudyAreaModes :
          IF mode = "none"
          THEN tool' = Finish("get_geoenrichment", NoReply, 0,
                              Ok(<<"Error: ", "Either x/y coordinates or studyAreas parameter must be provided">>,
                                 "invalid"))
          ELSE \E r \in GetGeoenrichmentReplies :
                  LET res == MakeRequest(POST, r)
                      b == GetGeoenrichmentBody(res.outcome)
                  IN tool' = [Finish("get_geoenrichment", r, res.exchanges, b)
                                EXCEPT !.result = IF b.raised # NoOutcome
                                                  THEN HandleGeoenrichment(b.raised)
                                                  ELSE ToolResult("text", b.text)]
    /\ UNCHANGED <<API_KEY, stdout, gateway, tasks>>

\* ------------------------------------------------------------ all the tools
\* the tools registered with @mcp.tool()
Exposed ==
    {"get_basemap_tile", "find_nearby_places", "geocode", "reverse_geocode",
     "get_directions", "get_elevation"}

NextTools ==
    \/ GetBasemapTile
    \/ Invoke
    \/ Primary
    \/ PlaceWithoutLookup
    \/ PlaceWithLookup
    \/ ReturnListing
    \/ Geocode
    \/ ReverseGeocode
    \/ GetDirections
    \/ GetElevation
    \/ GetPlaceDetails
    \/ GetGeoenrichment

\* one invocation of one tool
SpecTools == Init /\ [][NextTools]_vars

\* ===================================================== two concurrent calls
\* Two coroutines of make_arcgis_request on one event loop.  A coroutine runs
\* without interruption up to its next await: the entry of the async with
\* (line 181) and client.get / client.post (lines 184, 197).
ConcMethods == {GET, POST, <<"P","U","T">>}
ConcTokens == {None, Str(<<"tokA">>)}
ConcParams ==
    { <<>>,
      <<"q" :> Str(<<"coffee">>)>>,
      <<("token" :> Str(<<"tokC">>)) @@ ("f" :> Str(<<"pjson">>))>> }
ConcReplies ==
    { [kind |-> "transport", status |-> 0, body |-> NotJson, detail |-> <<>>],
      [kind |-> "response", status |-> 404, body |-> NotJson, detail |-> <<>>],
      OkReply(Dict("results" :> List(<<Str(<<"cafe">>)>>))) }

\* the arguments of one call and what the upstream answers to it
TaskDescs ==
    [method : ConcMethods, token : ConcTokens, params : ConcParams,
     timeout : {DEFAULT_TIMEOUT}, reply : ConcReplies]

\* lines 158-159: the mapping the call works on, the caller's or a new one
ArgDict(d) == IF d.params = <<>> THEN EmptyMap ELSE d.params[1]

NewTask(d) == [pc |-> "start", desc |-> d, sent |-> <<>>, outcome |-> NoOutcome]

\* variant: one headers dict at module level, used by every call
HeadersOfShared(i) == 1

\* line 173: the headers dict a call uses is the one it has just built
HeadersOf(i) == i

\* lines 158-239 run without any other call: the request sent and the outcome
RunAlone(d, apiKey) ==
    LET p1 == EnsureFormat(ResolveCredential(ArgDict(d), d.token, apiKey))
        branch == Dispatch(d.method)
    IN [sent |-> CASE branch = "GET" ->
                        <<[method |-> "GET", query |-> p1, headers |-> BaseHeaders,
                           json |-> <<>>, timeout |-> d.timeout]>>
                   [] branch = "POST" ->
                        <<[method |-> "POST", query |-> UrlParams(p1),
                           headers |-> PostHeaders(BaseHeaders),
                           json |-> <<BodyParams(p1)>>, timeout |-> d.timeout]>>
                   [] OTHER -> <<>>,
        outcome |-> MakeRequest(d.method, d.reply).outcome]

\* the other call is between its first and its last step
MidCall(i) == tasks.call[3 - i].pc \in {"send", "await"}

\* two calls are started with their own arguments
Spawn ==
    /\ ~tasks.started
    /\ \E d1, d2 \in TaskDescs :
          tasks' = [started |-> TRUE, key |-> API_KEY, overlapped |-> FALSE,
                    call |-> <<NewTask(d1), NewTask(d2)>>,
                    dicts |-> <<ArgDict(d1), ArgDict(d2)>>,
                    hdrs |-> <<EmptyMap, EmptyMap>>]
    /\ UNCHANGED <<API_KEY, stdout, gateway, tool>>

\* lines 158-181 of call i
TaskCall(i) ==
    /\ tasks.started
    /\ tasks.call[i].pc = "start"
    /\ LET d == tasks.call[i].desc
           p1 == EnsureFormat(ResolveCredential(tasks.dicts[i], d.token, API_KEY))
       IN tasks' = [tasks EXCEPT !.call[i].pc = "send",
                                 !.dicts[i] = p1,
                                 !.hdrs[HeadersOf(i)] = BaseHeaders,
                                 !.overlapped = @ \/ MidCall(i)]
    /\ UNCHANGED <<API_KEY, stdout, gateway, tool>>

\* lines 183-186 of call i
TaskSendGet(i) ==
    /\ tasks.started
    /\ tasks.call[i].pc = "send"
    /\ Dispatch(tasks.call[i].desc.method) = "GET"
    /\ tasks' = [tasks EXCEPT
                   !.call[i].pc = "await",
                   !.call[i].sent = <<[method |-> "GET", query |-> tasks.dicts[i],
                                       headers |-> tasks.hdrs[HeadersOf(i)],
                                       json |-> <<>>,
                                       timeout |-> tasks.call[i].desc.timeout]>>,
                   !.overlapped = @ \/ MidCall(i)]
    /\ UNCHANGED <<API_KEY, stdout, gateway, tool>>

\* lines 187-203 of call i
TaskSendPost(i) ==
    /\ tasks.started
    /\ tasks.call[i].pc = "send"
    /\ Dispatch(tasks.call[i].desc.method) = "POST"
    /\ LET h == PostHeaders(tasks.hdrs[HeadersOf(i)])
           url_params == UrlParams(tasks.dicts[i])
           body == BodyParams(tasks.dicts[i])
       IN tasks' = [tasks EXCEPT
                      !.call[i].pc = "await",
                      !.call[i].sent = <<[method |-> "POST", query |-> url_params,
                                          headers |-> h, json |-> <<body>>,
                                          timeout |-> tasks.call[i].desc.timeout]>>,
                      !.dicts[i] = body,
                      !.hdrs[HeadersOf(i)] = h,
                      !.overlapped = @ \/ MidCall(i)]
    /\ UNCHANGED <<API_KEY, stdout, gateway, tool>>

\* lines 204-205 and 181 of call i
TaskReject(i) ==
    /\ tasks.started
    /\ tasks.call[i].pc = "send"
    /\ Dispatch(tasks.call[i].desc.method) = "unsupported"
    /\ tasks' = [tasks EXCEPT
                   !.call[i].pc = "done",
                   !.call[i].outcome = UnsupportedMethod(tasks.call[i].desc.method),
                   !.overlapped = @ \/ MidCall(i)]
    /\ UNCHANGED <<API_KEY, stdout, gateway, tool>>

\* lines 207-239 and 181 of call i
TaskReceive(i) ==
    /\ tasks.started
    /\ tasks.call[i].pc = "await"
    /\ tasks' = [tasks EXCEPT
                   !.call[i].pc = "done",
                   !.call[i].outcome = Classify(tasks.call[i].desc.reply),
                   !.overlapped = @ \/ MidCall(i)]
    /\ UNCHANGED <<API_KEY, stdout, gateway, tool>>

NextConc ==
    \/ Spawn
    \/ \E i \in 1..2 : TaskCall(i)
    \/ \E i \in 1..2 : TaskSendGet(i)
    \/ \E i \in 1..2 : TaskSendPost(i)
    \/ \E i \in 1..2 : TaskReject(i)
    \/ \E i \in 1..2 : TaskReceive(i)

\* two concurrent calls of make_arcgis_request
SpecConc == Init /\ [][NextConc]_vars

TypeOK ==
    /\ pc \in {"idle", "ready", "client", "send", "await", "exit"}
    /\ calls \in 0..MaxCalls
    /\ Len(history) <= calls

\* ============================================================== properties
\* the calls that have ended
Ended == {history[i] : i \in DOMAIN history}

IsArcGISError(o) == o.kind = "raise" /\ o.exc = "ArcGISError"

\* the upstream answered with an HTTP status in 200..299
Replied2xx == upstream.kind = "response" /\ upstream.status >= 200 /\ upstream.status <= 299

\* the upstream answered with an HTTP status outside 200..299
RepliedNon2xx == upstream.kind = "response" /\ ~(upstream.status >= 200 /\ upstream.status <= 299)

\* the decoded body is an object with a top-level error member
HasErrorMember == upstream.body.kind = "dict" /\ "error" \in DOMAIN upstream.body.members

\* a field of the error member, default when the member has no such field
ErrorField(k, default) ==
    LET e == upstream.body.members["error"]
    IN IF e.kind = "dict" /\ k \in DOMAIN e.members THEN e.members[k] ELSE default

\* C1: a 2xx reply whose JSON body has a top-level error member ends in an
\* ArcGISError whose status_code is the member's code (0 when absent) and
\* whose message contains the member's message ("Unknown error" when absent).
C1_InBandErrorRaises ==
    \A h \in Ended :
        (h.sent # <<>> /\ Replied2xx /\ HasErrorMember) =>
            /\ IsArcGISError(h.outcome)
            /\ h.outcome.status_code = ErrorField("code", Num(0))
            /\ Contains(PyStr(ErrorField("message", Str(<<"Unknown error">>))),
                        h.outcome.message)

\* C2: every call ends either by returning the parsed JSON body or by
\* raising ArcGISError; no other exception type leaves the function.
C2_TwoOutcomes ==
    \A h \in Ended :
        \/ h.outcome.kind = "return" /\ h.sent # <<>> /\ h.outcome.value = upstream.body
        \/ IsArcGISError(h.outcome)

\* C3: a non-2xx reply ends in an ArcGISError whose status_code is not None:
\* the embedded error.code when the body carries one, the HTTP status
\* otherwise.
C3_StatusCodePresent ==
    \A h \in Ended :
        (h.sent # <<>> /\ RepliedNon2xx) =>
            /\ IsArcGISError(h.outcome)
            /\ h.outcome.status_code # None
            /\ h.outcome.status_code =
                 (IF HasErrorMember THEN ErrorField("code", Num(upstream.status))
                  ELSE Num(upstream.status))

\* the values rendered anywhere in one printed rendition
RenderedValues(r) ==
    {r.query[k] : k \in DOMAIN r.query}
    \cup {r.headers[k] : k \in DOMAIN r.headers}
    \cup (IF r.body = <<>> THEN {} ELSE {r.body[1][k] : k \in DOMAIN r.body[1]})

\* the token parameter of a rendition shows the marker
TokenShownRedacted(r) ==
    /\ "token" \in DOMAIN r.query => r.query["token"] = Str(<<"......">>)
    /\ (r.body # <<>> /\ "token" \in DOMAIN r.body[1]) => r.body[1]["token"] = Str(<<"......">>)

\* the renditions of a call that sent request req do not show its token
NoTokenInLog(req, renditions) ==
    ("token" \in DOMAIN req.query /\ req.query["token"].s # <<>>) =>
        \A i \in DOMAIN renditions :
            /\ req.query["token"] \notin RenderedValues(renditions[i])
            /\ TokenShownRedacted(renditions[i])

\* C4: for every call that sends a token, GET or POST, no rendition printed
\* during the call shows the token value in its query string, headers or
\* body, and every rendered token parameter shows the marker "......".
C4_TokenNeverLogged ==
    /\ sent # <<>> => NoTokenInLog(sent[1], printed)
    /\ \A h \in Ended : h.sent # <<>> => NoTokenInLog(h.sent[1], h.printed)

\* a POST call with a token and a body has ended after printing two renditions
C4_Witness ==
    \E h \in Ended :
        /\ h.sent # <<>>
        /\ h.sent[1].method = "POST"
        /\ "token" \in DOMAIN h.sent[1].query
        /\ h.sent[1].query["token"] = Str(<<"tokA">>)
        /\ Len(h.printed) = 2
        /\ h.printed[2].body # <<>>

\* the params argument of the running call, {} when it was None
Supplied == IF supplied = <<>> THEN EmptyMap ELSE supplied[1]

\* the token entry of a dict: <<>> when the key is absent
TokenOf(d) == IF "token" \in DOMAIN d THEN <<d["token"]>> ELSE <<>>

\* the token the rule of C5 prescribes, given what counts as an override
\* being present
PrescribedToken(overridePresent) ==
    IF overridePresent THEN <<desc.token>>
    ELSE IF API_KEY.s # <<>> /\ "token" \notin DOMAIN Supplied THEN <<API_KEY>>
    ELSE TokenOf(Supplied)

\* the token of the running call, after resolution and in the request sent
OutgoingTokenIs(t) ==
    /\ pc = "client" => TokenOf(params) = t
    /\ sent # <<>> => TokenOf(sent[1].query) = t

\* C5 as stated: any override that is present (not None) becomes the
\* outgoing token.
C5_AsStated == OutgoingTokenIs(PrescribedToken(desc.token # None))

\* C5: a non-empty override becomes the outgoing token, replacing the
\* caller's; otherwise a configured API_KEY is used when the parameters have
\* no token key; otherwise the token key is left as the caller supplied it.
\* An empty-string override counts as absent.
C5_CredentialResolution ==
    OutgoingTokenIs(PrescribedToken(desc.token # None /\ desc.token.s # <<>>))

\* an override has replaced the caller's own token in a sent request
C5_Witness ==
    /\ sent # <<>>
    /\ "token" \in DOMAIN Supplied
    /\ desc.token = Str(<<"tokA">>)
    /\ Supplied["token"] = Str(<<"tokC">>)
    /\ sent[1].query["token"] = Str(<<"tokA">>)

\* the query string and the body C6 prescribes for a POST
PostSplitOk(req, sup, tok) ==
    /\ DOMAIN req.query = {"f"} \cup (IF tok # <<>> THEN {"token"} ELSE {})
    /\ req.json # <<>>
    /\ DOMAIN req.json[1] = (DOMAIN sup) \ {"f", "token"}
    /\ \A k \in DOMAIN req.json[1] : req.json[1][k] = sup[k]

C7_Idempotent ==
    Len(history) >= 2 =>
        /\ history[2].sent = history[1].sent
        /\ history[2].outcome = history[1].outcome

\* the method of the descriptor is GET or POST, in any letter case
MethodIsGetOrPost == Upper(desc.method) = GET \/ Upper(desc.method) = POST

\* C8: a GET or POST call performs exactly one HTTP exchange whatever its
\* outcome, and is sent even when no token is available.
C8_ExactlyOneExchange ==
    /\ exchanges <= 1
    /\ \A h \in Ended : MethodIsGetOrPost => (h.exchanges = 1 /\ h.sent # <<>>)

\* a call without any token ended in a transport failure after one exchange
C8_Witness ==
    \E h \in Ended :
        /\ h.exchanges = 1
        /\ "token" \notin DOMAIN h.sent[1].query
        /\ upstream.kind = "transport"
        /\ IsArcGISError(h.outcome)

\* the call was rejected as a caller error without any request
RejectedLocally(h) ==
    /\ IsArcGISError(h.outcome)
    /\ h.outcome.status_code = None
    /\ h.sent = <<>>
    /\ h.exchanges = 0

\* C9 as stated: every method value other than the strings GET and POST is
\* rejected without a request.
C9_AsStated ==
    \A h \in Ended : desc.method \notin {GET, POST} => RejectedLocally(h)

\* C9: every method value that is neither GET nor POST when compared without
\* regard to letter case is rejected with an ArcGISError that has no status
\* code, and no request is sent.
C9_UnsupportedMethodRejected ==
    \A h \in Ended : ~MethodIsGetOrPost => RejectedLocally(h)

\* a PUT call has ended
C9_Witness ==
    \E h \in Ended :
        /\ desc.method = <<"P","U","T">>
        /\ h.outcome.message = <<"Unsupported HTTP method: ", "P", "U", "T">>

\* C10: a transport failure ends in an ArcGISError with status_code None and
\* a message that starts with "Request Error: "; the message of a non-2xx
\* failure starts with "HTTP Error: " instead.
C10_TransportFailure ==
    \A h \in Ended :
        /\ (h.sent # <<>> /\ upstream.kind = "transport") =>
              /\ IsArcGISError(h.outcome)
              /\ h.outcome.status_code = None
              /\ h.outcome.message = <<"Request Error: ">> \o upstream.detail
        /\ (h.sent # <<>> /\ RepliedNon2xx) =>
              /\ IsArcGISError(h.outcome)
              /\ Head(h.outcome.message) = "HTTP Error: "

\* a refused connection has been reported
C10_Witness ==
    \E h \in Ended :
        /\ upstream.kind = "transport"
        /\ h.outcome.message = <<"Request Error: ", "All connection attempts failed">>

\* the body carries no error detail: it is not an object, or has no error
\* member, or that member is not an object with a message or a code
NoErrorDetail ==
    ~(/\ HasErrorMember
      /\ upstream.body.members["error"].kind = "dict"
      /\ DOMAIN upstream.body.members["error"].members # {})

\* C11: a non-2xx reply whose body is not JSON, or is JSON without error
\* detail, ends in an ArcGISError that carries the HTTP status as status_code
\* and a message derived from the status.
C11_GenericHttpError ==
    \A h \in Ended :
        (h.sent # <<>> /\ RepliedNon2xx /\ NoErrorDetail) =>
            /\ IsArcGISError(h.outcome)
            /\ h.outcome.status_code = Num(upstream.status)
            /\ Head(h.outcome.message) = "HTTP Error: "
            /\ Contains(<<ToString(upstream.status)>>, h.outcome.message)

\* a 404 with an undecodable body and a 500 with a JSON list have ended
C11_Witness ==
    \E h \in Ended :
        /\ h.sent # <<>>
        /\ upstream.kind = "response"
        /\ \/ upstream.status = 404 /\ upstream.body = NotJson
           \/ upstream.status = 500 /\ upstream.body.kind = "list"
        /\ h.outcome.status_code = Num(upstream.status)

\* C12: a 2xx reply whose body is not valid JSON ends in an ArcGISError with
\* status_code None and the message "Invalid JSON response from ArcGIS API".
C12_InvalidJson ==
    \A h \in Ended :
        (h.sent # <<>> /\ Replied2xx /\ upstream.body.kind \in {"notjson", "badbytes"}) =>
            /\ IsArcGISError(h.outcome)
            /\ h.outcome.status_code = None
            /\ h.outcome.message = <<"Invalid JSON response from ArcGIS API">>

\* C13: a 2xx reply whose body is valid JSON without a top-level error member
\* is returned as it was parsed.
C13_BodyReturnedVerbatim ==
    \A h \in Ended :
        (/\ h.sent # <<>>
         /\ Replied2xx
         /\ upstream.body.kind \notin {"notjson", "badbytes"}
         /\ ~HasErrorMember) =>
            /\ h.outcome.kind = "return"
            /\ h.outcome.value = upstream.body

\* the query string C14 prescribes for a GET
GetQueryOk(req, sup, tok) ==
    /\ req.json = <<>>
    /\ DOMAIN req.query = (DOMAIN sup) \cup {"f"} \cup (IF tok # <<>> THEN {"token"} ELSE {})
    /\ req.query["f"] = (IF "f" \in DOMAIN sup THEN sup["f"] ELSE Str(<<"json">>))
    /\ TokenOf(req.query) = tok
    /\ \A k \in (DOMAIN sup) \ {"token"} : req.query[k] = sup[k]

\* C14: a GET builds no body and sends every parameter in the query string,
\* with f (the caller's value, else "json") and with token exactly when
\* credential resolution produced one.
C14_GetQuery ==
    (sent # <<>> /\ sent[1].method = "GET") =>
        GetQueryOk(sent[1], Supplied,
                   PrescribedToken(desc.token # None /\ desc.token.s # <<>>))

\* a GET went out with the caller's f=pjson and q, and the default key
C14_Witness ==
    /\ sent # <<>>
    /\ sent[1].method = "GET"
    /\ "f" \in DOMAIN Supplied
    /\ sent[1].query["f"] = Str(<<"pjson">>)
    /\ "q" \in DOMAIN sent[1].query
    /\ TokenOf(sent[1].query) = <<Str(<<"keyD">>)>>

\* the rendition shows the token of the query string as the marker
ShownQuery(q) ==
    [k \in DOMAIN q |-> IF k = "token" THEN Str(<<"......">>) ELSE q[k]]

\* rendition r describes request req
Describes(r, req) ==
    /\ Upper(r.method) = (IF req.method = "GET" THEN GET ELSE POST)
    /\ r.query = ShownQuery(req.query)
    /\ r.headers = req.headers
    /\ (req.json # <<>> /\ DOMAIN req.json[1] # {}) => r.body = req.json

\* C16: every rendition printed for a call describes the request that is
\* sent: its method, exactly the parameters of its query string with the
\* token redacted, exactly its headers and, for a POST, its body.
C16_LogDescribesRequest ==
    \A h \in Ended :
        h.sent # <<>> => \A i \in DOMAIN h.printed : Describes(h.printed[i], h.sent[1])

\* C15: a failure of log_http_request never changes the result of the call:
\* the call does not end in the exception of the log, and a GET or POST call
\* still performs its exchange.
C15_LogFailureHarmless ==
    \A h \in Ended :
        /\ h.outcome.exc # "ValueError"
        /\ MethodIsGetOrPost => h.exchanges = 1

\* C17: no call ends while its client is open, on any path, and no client
\* serves two calls.
C17_ClientClosed ==
    /\ pc \in {"idle", "ready"} => ~clientOpen
    /\ clients <= calls
    /\ \A i, j \in DOMAIN history :
          (i # j /\ history[i].client # 0) => history[i].client # history[j].client

\* a call that failed in the log of line 195, inside the with-block, has
\* ended with its client closed
C17_Witness ==
    /\ pc = "ready"
    /\ ~clientOpen
    /\ \E h \in Ended :
          /\ h.client # 0
          /\ h.sent = <<>>
          /\ h.outcome.exc = "ValueError"

\* the lookup of an entry failed: the call raised, or the payload was not an
\* object
LookupFailed(e) ==
    /\ e.looked
    /\ \/ e.lookup.kind = "raise"
       \/ e.lookup.kind = "return" /\ e.lookup.value.kind # "dict"

\* C18: whatever the detail lookups do, when the near-point call has returned
\* at least one place the tool returns the listing of every place, and a
\* place whose lookup failed has no Detailed Information section.
C18_LookupFailureHarmless ==
    /\ tool.pc = "loop" =>
          \A i \in DOMAIN tool.entries : LookupFailed(tool.entries[i]) => ~tool.entries[i].section
    /\ (tool.pc = "done" /\ tool.places # <<>>) =>
          /\ tool.result.kind = "listing"
          /\ Len(tool.entries) = Len(tool.places)
          /\ \A i \in DOMAIN tool.entries :
                /\ tool.entries[i].name = tool.places[i].members["name"]
                /\ LookupFailed(tool.entries[i]) => ~tool.entries[i].section

\* a listing was returned in which one lookup failed and another gave details
C18_Witness ==
    /\ tool.pc = "done"
    /\ tool.result.kind = "listing"
    /\ \E i, j \in DOMAIN tool.entries :
          /\ LookupFailed(tool.entries[i])
          /\ tool.entries[j].section

\* the places of the result that have a non-empty id
PlacesWithId ==
    {i \in DOMAIN tool.places :
        /\ "placeId" \in DOMAIN tool.places[i].members
        /\ tool.places[i].members["placeId"].s # <<>>}

\* the lookups made so far and those that gave no details
Lookups == {i \in DOMAIN tool.entries : tool.entries[i].looked}
EmptyLookups == {i \in Lookups : ~tool.entries[i].section}

C20_ConcurrentCallsIndependent ==
    tasks.started =>
       /\ API_KEY = tasks.key
       /\ \A i \in 1..2 :
             LET c == tasks.call[i]
                 alone == RunAlone(c.desc, tasks.key)
             IN /\ c.pc \in {"await", "done"} => c.sent = alone.sent
                /\ c.pc = "done" => c.outcome = alone.outcome

\* a POST and a GET, each with a step taken while the other was under way,
\* have both ended
C20_Witness ==
    /\ tasks.started
    /\ tasks.overlapped
    /\ tasks.call[1].pc = "done" /\ tasks.call[2].pc = "done"
    /\ Dispatch(tasks.call[1].desc.method) = "POST"
    /\ Dispatch(tasks.call[2].desc.method) = "GET"
    /\ tasks.call[1].sent # <<>> /\ tasks.call[2].sent # <<>>

\* an exception was raised while the tool ran: one that reached the tool's
\* handler, or one raised by a detail lookup
RaisedDuringCall ==
    \/ tool.caught # NoOutcome
    \/ \E i \in DOMAIN tool.entries : tool.entries[i].lookup.kind = "raise"

\* the text begins with "Error"
IsErrorText(text) == text # <<>> /\ Head(text) \in {"Error: ", "Error ("}

\* C21 as stated: an exposed tool returns a string, and every exception
\* raised during the call is turned into an "Error..." string by
\* format_error.
C21_AsStated ==
    (tool.pc = "done" /\ tool.name \in Exposed) =>
       /\ tool.result.kind \in {"text", "listing", "error"}
       /\ RaisedDuringCall => (tool.result.kind = "error" /\ IsErrorText(tool.result.text))

\* C21: an exposed tool returns a string for every input and every upstream
\* behaviour; every exception that reaches the tool's handler (an
\* ArcGISError or any other exception leaving make_arcgis_request, or one
\* raised while formatting the payload) is returned as the "Error..." text of
\* format_error, and only those are; no exception leaves the tool.
C21_ExceptionsBecomeText ==
    (tool.pc = "done" /\ tool.name \in Exposed) =>
       /\ tool.result.kind \in {"text", "listing", "error"}
       /\ tool.caught # NoOutcome =>
             /\ tool.result = ToolResult("error", FormatError(tool.caught))
             /\ IsErrorText(tool.result.text)
       /\ tool.result.kind = "error" => tool.caught # NoOutcome

\* reverse_geocode has caught the AttributeError of a payload whose address
\* is not an object and returned its text
C21_Witness ==
    /\ tool.pc = "done"
    /\ tool.name = "reverse_geocode"
    /\ tool.reply = OkReply(Dict("address" :> None))
    /\ tool.caught.exc = "AttributeError"
    /\ tool.result.kind = "error"
    /\ IsErrorText(tool.result.text)

\* the reply to the tool's call of make_arcgis_request is a 2xx response whose
\* body is an object with a top-level error member
InBandReply ==
    /\ tool.reply.kind = "response"
    /\ IsSuccess(tool.reply.status)
    /\ tool.reply.body.kind = "dict"
    /\ "error" \in DOMAIN tool.reply.body.members

\* a field of that error member, default when the member has no such field
ReplyErrorField(k, default) ==
    LET e == tool.reply.body.members["error"]
    IN IF e.kind = "dict" /\ k \in DOMAIN e.members THEN e.members[k] ELSE default

\* C22: no tool takes its "error" in data branch, and an in-band upstream
\* error reaches the user as "Error (<code>): API Error: <message>", or as
\* "Error: API Error: <message>" when the code is 0.
C22_InBandErrorText ==
    tool.pc = "done" =>
       /\ tool.branch # "inband"
       /\ (tool.name # "get_basemap_tile" /\ InBandReply) =>
             LET code == ReplyErrorField("code", Num(0))
                 message == ReplyErrorField("message", Str(<<"Unknown error">>))
             IN tool.result.text =
                  (IF code = Num(0) THEN <<"Error: ">>
                   ELSE <<"Error (">> \o PyStr(code) \o <<"): ">>)
                  \o <<"API Error: ">> \o PyStr(message)

====
